---------------------------- MODULE Spec2Model ----------------------------
(***************************************************************************)
(* Model of src/index.js: the real-type classifier getRealType, the        *)
(* comparator areEqual and the aggregators allItemsHaveTheSameType,        *)
(* everyItemHasAUniqueRealType and countRealTypes.                         *)
(*                                                                         *)
(* The functions are pure.  A behaviour is one run of calls, as the test   *)
(* script makes them: getRealType on a value, or areEqual on two values,   *)
(* or, on one array, allItemsHaveTheSameType, getRealTypesOfItems,         *)
(* everyItemHasAUniqueRealType and countRealTypes in the script's order.   *)
(* The arguments are drawn from a bounded universe of JavaScript values.   *)
(* countRealTypes is run one forEach iteration per step, so that the state *)
(* of its accumulation loop is visible.                                    *)
(***************************************************************************)
EXTENDS Integers, Sequences, FiniteSets

VARIABLES
    op,        \* the function called last, "none" before the first call
    pc,        \* "idle", "run" (between two calls on arr), "loop" (inside
               \* countRealTypes' forEach), "done"
    arg,       \* getRealType: value
    a,         \* areEqual: first operand
    b,         \* areEqual: second operand
    arr,       \* the array the aggregators are called on
    i,         \* countRealTypes: number of elements forEach has visited
    map,       \* countRealTypes: map, its entries in insertion order
    retType,   \* what getRealType returned
    retEqual,  \* what areEqual returned
    retSame,   \* what allItemsHaveTheSameType returned
    retTypes,  \* what getRealTypesOfItems returned
    retUnique, \* what everyItemHasAUniqueRealType returned
    retStat    \* what countRealTypes returned

vars ==
    <<op, pc, arg, a, b, arr, i, map, retType, retEqual, retSame, retTypes,
      retUnique, retStat>>

(***************************************************************************)
(* Bounds of the universe of inputs.                                       *)
(***************************************************************************)
\* longest arr given to an aggregator, elements drawn from SampleValues
MaxLen == 3
\* longest arr given to an aggregator, elements drawn from KnownTypes
MaxKnownLen == 2
\* longest array (flat or nested) given to areEqual
MaxEqLen == 2

(***************************************************************************)
(* JavaScript values.  type is the language type; num tells a finite       *)
(* number from NaN and the infinities; n is the numeric (or boolean)       *)
(* payload; s is a string's text, as UTF-16 code units; an object has an   *)
(* identity id, may be callable, may be an array exotic object with items, *)
(* and chain is the set of constructors whose prototype lies on its        *)
(* prototype chain.                                                        *)
(***************************************************************************)
Prim(t, num, n, s) ==
    [type |-> t, num |-> num, n |-> n, s |-> s, callable |-> FALSE,
     isArray |-> FALSE, chain |-> {}, id |-> 0, items |-> <<>>]

Obj(id, callable, chain) ==
    [type |-> "object", num |-> "na", n |-> 0, s |-> <<>>, callable |-> callable,
     isArray |-> FALSE, chain |-> chain, id |-> id, items |-> <<>>]

\* An array literal.  areEqual never applies === to two arrays and no other
\* function looks at an array's identity, so array literals carry id 0.
Arr(items) ==
    [type |-> "object", num |-> "na", n |-> 0, s |-> <<>>, callable |-> FALSE,
     isArray |-> TRUE, chain |-> {}, id |-> 0, items |-> items]

RECURSIVE Digits(_)
\* Number.prototype.toString of a non-negative integer, as code units
Digits(n) == IF n < 10 THEN <<48 + n>> ELSE Digits(n \div 10) \o <<48 + (n % 10)>>

Bool(x) == Prim("boolean", "na", IF x THEN 1 ELSE 0, <<>>)
Num(n) == Prim("number", "fin", n, <<>>)
Str(n) == Prim("string", "na", 0, Digits(n))      \* the string '11', '123', ...
BigInt(n) == Prim("bigint", "na", n, <<>>)
Sym(id) == [Prim("symbol", "na", 0, <<>>) EXCEPT !.id = id]
Undefined == Prim("undefined", "na", 0, <<>>)
Null == Prim("null", "na", 0, <<>>)
NaN == Prim("number", "nan", 0, <<>>)
Infinity == Prim("number", "pinf", 0, <<>>)
NegInfinity == Prim("number", "ninf", 0, <<>>)

\* The constructors getRealType tests with instanceof
Ctors == {"Function", "Date", "RegExp", "Set", "Map", "WeakSet", "WeakMap", "Promise"}

\* typeof value
getType(value) ==
    CASE value.type = "null" -> "object"
      [] value.type = "object" -> IF value.callable THEN "function" ELSE "object"
      [] OTHER -> value.type

\* a === b
StrictEquals(x, y) ==
    IF x.type # y.type THEN FALSE
    ELSE CASE x.type = "undefined" -> TRUE
           [] x.type = "null" -> TRUE
           [] x.type = "number" ->
                  /\ x.num # "nan"
                  /\ y.num # "nan"
                  /\ x.num = y.num
                  /\ x.n = y.n
           [] x.type = "string" -> x.s = y.s
           [] x.type = "boolean" -> x.n = y.n
           [] x.type = "bigint" -> x.n = y.n
           [] OTHER -> x.id = y.id       \* symbols and objects: same identity

\* Number.isNaN(value)
NumberIsNaN(value) == value.type = "number" /\ value.num = "nan"

\* Array.isArray(value)
ArrayIsArray(value) == value.type = "object" /\ value.isArray

\* value instanceof C
InstanceOf(value, C) == value.type = "object" /\ C \in value.chain

\* getRealType with the typeof value === 'number' test moved in front of the
\* Infinity and NaN tests
getRealTypeNumberFirst(value) ==
    IF getType(value) = "boolean" THEN "boolean"
    ELSE IF getType(value) = "string" THEN "string"
    ELSE IF getType(value) = "undefined" THEN "undefined"
    ELSE IF value.type = "null" THEN "null"
    ELSE IF getType(value) = "number" THEN "number"
    ELSE IF StrictEquals(value, Infinity) \/ StrictEquals(value, NegInfinity) THEN "Infinity"
    ELSE IF NumberIsNaN(value) THEN "NaN"
    ELSE IF getType(value) = "bigint" THEN "bigint"
    ELSE IF ArrayIsArray(value) THEN "array"
    ELSE IF InstanceOf(value, "Function") THEN "function"
    ELSE IF InstanceOf(value, "Date") THEN "date"
    ELSE IF InstanceOf(value, "RegExp") THEN "regexp"
    ELSE IF InstanceOf(value, "Set") THEN "set"
    ELSE IF InstanceOf(value, "Map") THEN "map"
    ELSE IF InstanceOf(value, "WeakSet") THEN "weakset"
    ELSE IF InstanceOf(value, "WeakMap") THEN "weakmap"
    ELSE IF getType(value) = "symbol" THEN "symbol"
    ELSE IF InstanceOf(value, "Promise") THEN "promise"
    ELSE IF getType(value) = "object" THEN "object"
    ELSE "unknown"

\* getRealType with the instanceof Map test in front of the instanceof Set
\* test and the typeof value === 'object' test in front of the Promise test
getRealTypeReordered(value) ==
    IF getType(value) = "boolean" THEN "boolean"
    ELSE IF getType(value) = "string" THEN "string"
    ELSE IF getType(value) = "undefined" THEN "undefined"
    ELSE IF value.type = "null" THEN "null"
    ELSE IF StrictEquals(value, Infinity) \/ StrictEquals(value, NegInfinity) THEN "Infinity"
    ELSE IF NumberIsNaN(value) THEN "NaN"
    ELSE IF getType(value) = "number" THEN "number"
    ELSE IF getType(value) = "bigint" THEN "bigint"
    ELSE IF ArrayIsArray(value) THEN "array"
    ELSE IF InstanceOf(value, "Function") THEN "function"
    ELSE IF InstanceOf(value, "Date") THEN "date"
    ELSE IF InstanceOf(value, "RegExp") THEN "regexp"
    ELSE IF InstanceOf(value, "Map") THEN "map"
    ELSE IF InstanceOf(value, "Set") THEN "set"
    ELSE IF InstanceOf(value, "WeakSet") THEN "weakset"
    ELSE IF InstanceOf(value, "WeakMap") THEN "weakmap"
    ELSE IF getType(value) = "symbol" THEN "symbol"
    ELSE IF getType(value) = "object" THEN "object"
    ELSE IF InstanceOf(value, "Promise") THEN "promise"
    ELSE "unknown"

\* getRealType: the if-chain, first test that holds returns
getRealType(value) ==
    IF getType(value) = "boolean" THEN "boolean"
    ELSE IF getType(value) = "string" THEN "string"
    ELSE IF getType(value) = "undefined" THEN "undefined"
    ELSE IF value.type = "null" THEN "null"
    ELSE IF StrictEquals(value, Infinity) \/ StrictEquals(value, NegInfinity) THEN "Infinity"
    ELSE IF NumberIsNaN(value) THEN "NaN"
    ELSE IF getType(value) = "number" THEN "number"
    ELSE IF getType(value) = "bigint" THEN "bigint"
    ELSE IF ArrayIsArray(value) THEN "array"
    ELSE IF InstanceOf(value, "Function") THEN "function"
    ELSE IF InstanceOf(value, "Date") THEN "date"
    ELSE IF InstanceOf(value, "RegExp") THEN "regexp"
    ELSE IF InstanceOf(value, "Set") THEN "set"
    ELSE IF InstanceOf(value, "Map") THEN "map"
    ELSE IF InstanceOf(value, "WeakSet") THEN "weakset"
    ELSE IF InstanceOf(value, "WeakMap") THEN "weakmap"
    ELSE IF getType(value) = "symbol" THEN "symbol"
    ELSE IF InstanceOf(value, "Promise") THEN "promise"
    ELSE IF getType(value) = "object" THEN "object"
    ELSE "unknown"

\* arr.map(getRealType)
getRealTypesOfItems(xs) == [k \in 1..Len(xs) |-> getRealType(xs[k])]


(***************************************************************************)
(* areEqual                                                                *)
(***************************************************************************)
\* "NaN" and "[object Object]" as code units
NaNText == <<78, 97, 78>>
ObjectText == <<91, 111, 98, 106, 101, 99, 116, 32, 79, 98, 106, 101, 99, 116, 93>>

RECURSIVE Join(_)
\* Array.prototype.join(): the elements' strings with "," between them; null
\* and undefined give the empty string, a nested array its own join()
Join(xs) ==
    LET text(v) ==
            CASE v.type \in {"undefined", "null"} -> <<>>
              [] v.type = "string" -> v.s
              [] v.type = "number" -> IF v.num = "fin" THEN Digits(v.n) ELSE NaNText
              [] v.type = "object" /\ v.isArray -> Join(v.items)
              [] OTHER -> ObjectText
    IN  IF Len(xs) = 0 THEN <<>>
        ELSE IF Len(xs) = 1 THEN text(xs[1])
        ELSE Join(SubSeq(xs, 1, Len(xs) - 1)) \o <<44>> \o text(xs[Len(xs)])

\* a == b, for the operand kinds areEqual is given: null and undefined equal
\* each other, a number equals the string that spells it
LooseEquals(x, y) ==
    \/ StrictEquals(x, y)
    \/ {x.type, y.type} = {"null", "undefined"}
    \/ /\ x.type = "number" /\ x.num = "fin"
       /\ y.type = "string" /\ y.s = Digits(x.n)
    \/ /\ y.type = "number" /\ y.num = "fin"
       /\ x.type = "string" /\ x.s = Digits(y.n)

\* areEqual as it compared two arrays before: by their join() strings
areEqualJoin(x, y) ==
    IF ArrayIsArray(x) /\ ArrayIsArray(y)
    THEN Join(x.items) = Join(y.items)
    ELSE StrictEquals(x, y)

RECURSIVE areEqualLoose(_, _)
\* areEqual with == in place of ===
areEqualLoose(x, y) ==
    IF ArrayIsArray(x) /\ ArrayIsArray(y)
    THEN IF Len(x.items) # Len(y.items) THEN FALSE
         ELSE \A k \in 1..Len(x.items) : areEqualLoose(x.items[k], y.items[k])
    ELSE LooseEquals(x, y)

RECURSIVE areEqualPrefix(_, _)
\* areEqual with a.length > b.length in place of a.length !== b.length
areEqualPrefix(x, y) ==
    IF ArrayIsArray(x) /\ ArrayIsArray(y)
    THEN IF Len(x.items) > Len(y.items) THEN FALSE
         ELSE \A k \in 1..Len(x.items) : areEqualPrefix(x.items[k], y.items[k])
    ELSE StrictEquals(x, y)

RECURSIVE areEqualNegated(_, _)
\* areEqual with the ! of the loop's test dropped: if (areEqual(a[i], b[i]))
areEqualNegated(x, y) ==
    IF ArrayIsArray(x) /\ ArrayIsArray(y)
    THEN IF Len(x.items) # Len(y.items) THEN FALSE
         ELSE \A k \in 1..Len(x.items) : ~ areEqualNegated(x.items[k], y.items[k])
    ELSE StrictEquals(x, y)

RECURSIVE areEqual(_, _)
\* areEqual: two arrays are equal when their lengths are and the for loop
\* finds no index whose elements are not areEqual; anything else is a === b
areEqual(x, y) ==
    IF ArrayIsArray(x) /\ ArrayIsArray(y)
    THEN IF Len(x.items) # Len(y.items) THEN FALSE
         ELSE \A k \in 1..Len(x.items) : areEqual(x.items[k], y.items[k])
    ELSE StrictEquals(x, y)

(***************************************************************************)
(* The aggregators                                                         *)
(***************************************************************************)
\* allItemsHaveTheSameType: types is a Set of the typeof strings
allItemsHaveTheSameType(xs) ==
    Cardinality({getType(xs[k]) : k \in 1..Len(xs)}) = 1

\* everyItemHasAUniqueRealType with typeof in place of getRealType
everyItemHasAUniqueType(xs) ==
    Len(xs) = Cardinality({getType(xs[k]) : k \in 1..Len(xs)})

\* everyItemHasAUniqueRealType: types is a Set of the real types
everyItemHasAUniqueRealType(xs) ==
    Len(xs) = Cardinality({getRealType(xs[k]) : k \in 1..Len(xs)})

\* The object map of countRealTypes is the sequence of its [key, value]
\* entries in insertion order, which is the order of Object.entries.
HasKey(m, key) == \E k \in 1..Len(m) : m[k][1] = key

\* map[key], read where the key is present
Get(m, key) == m[CHOOSE k \in 1..Len(m) : m[k][1] = key][2]

\* map[key] = val
Put(m, key, val) ==
    IF HasKey(m, key)
    THEN [k \in 1..Len(m) |-> IF m[k][1] = key THEN <<key, val>> ELSE m[k]]
    ELSE Append(m, <<key, val>>)

\* The forEach callback that never adds to a count it has just created
forEachBodyElse(m, value) ==
    LET type == getRealType(value)
    IN  IF ~ HasKey(m, type) \/ Get(m, type) = 0
        THEN Put(m, type, 0)
        ELSE Put(m, type, Get(m, type) + 1)

\* The forEach callback of countRealTypes
forEachBody(m, value) ==
    LET type == getRealType(value)
        m0 == IF ~ HasKey(m, type) \/ Get(m, type) = 0 THEN Put(m, type, 0) ELSE m
    IN  Put(m0, type, Get(m0, type) + 1)

\* The code units of the strings getRealType returns
CodeUnits(s) ==
    CASE s = "boolean" -> <<98, 111, 111, 108, 101, 97, 110>>
      [] s = "string" -> <<115, 116, 114, 105, 110, 103>>
      [] s = "undefined" -> <<117, 110, 100, 101, 102, 105, 110, 101, 100>>
      [] s = "null" -> <<110, 117, 108, 108>>
      [] s = "Infinity" -> <<73, 110, 102, 105, 110, 105, 116, 121>>
      [] s = "NaN" -> <<78, 97, 78>>
      [] s = "number" -> <<110, 117, 109, 98, 101, 114>>
      [] s = "bigint" -> <<98, 105, 103, 105, 110, 116>>
      [] s = "array" -> <<97, 114, 114, 97, 121>>
      [] s = "function" -> <<102, 117, 110, 99, 116, 105, 111, 110>>
      [] s = "date" -> <<100, 97, 116, 101>>
      [] s = "regexp" -> <<114, 101, 103, 101, 120, 112>>
      [] s = "set" -> <<115, 101, 116>>
      [] s = "map" -> <<109, 97, 112>>
      [] s = "weakset" -> <<119, 101, 97, 107, 115, 101, 116>>
      [] s = "weakmap" -> <<119, 101, 97, 107, 109, 97, 112>>
      [] s = "symbol" -> <<115, 121, 109, 98, 111, 108>>
      [] s = "promise" -> <<112, 114, 111, 109, 105, 115, 101>>
      [] s = "object" -> <<111, 98, 106, 101, 99, 116>>
      [] s = "unknown" -> <<117, 110, 107, 110, 111, 119, 110>>

\* -1, 0, 1: the lexicographic comparison of two sequences of numbers: the
\* first index where they differ decides, and a proper prefix comes first
SeqCompare(u, v) ==
    LET n == IF Len(u) < Len(v) THEN Len(u) ELSE Len(v)
        diff == {k \in 1..n : u[k] # v[k]}
        d == CHOOSE k \in diff : \A j \in diff : k <= j
    IN  IF diff # {} THEN (IF u[d] < v[d] THEN -1 ELSE 1)
        ELSE IF Len(u) < Len(v) THEN -1
        ELSE IF Len(u) > Len(v) THEN 1
        ELSE 0

\* s.localeCompare(t) in the default (root, English) collation, for strings of
\* ASCII letters: the letters decide, whatever their case; between strings
\* with the same letters the one with the lower-case letter at the first
\* difference of case comes first.
localeCompare(s, t) ==
    LET lower(c) == IF c \in 65..90 THEN c + 32 ELSE c
        primary(u) == [k \in 1..Len(u) |-> lower(u[k])]
        \* lower case before upper case
        tertiary(u) == [k \in 1..Len(u) |-> IF u[k] \in 65..90 THEN 1 ELSE 0]
        p == SeqCompare(primary(CodeUnits(s)), primary(CodeUnits(t)))
    IN  IF p # 0 THEN p
        ELSE SeqCompare(tertiary(CodeUnits(s)), tertiary(CodeUnits(t)))

\* The comparator given to sort: (a, b) => a[0].localeCompare(b[0])
compareFn(x, y) == localeCompare(x[1], y[1])

\* The sort call left out: the entries stay in insertion order
sortNone(entries) == entries

\* Array.prototype.sort(compareFn): a stable sort; an entry comes behind the
\* entries that compare less than it and behind the earlier entries that
\* compare equal to it
sort(entries) ==
    LET n == Len(entries)
        before(k) ==
            Cardinality({j \in 1..n :
                \/ compareFn(entries[j], entries[k]) < 0
                \/ compareFn(entries[j], entries[k]) = 0 /\ j < k})
    IN  [p \in 1..n |-> entries[CHOOSE k \in 1..n : before(k) = p - 1]]

(***************************************************************************)
(* The inputs                                                              *)
(***************************************************************************)
\* const knownTypes = [...]
knownTypes ==
    << Bool(TRUE), Num(123), Str(123), Arr(<<Num(1), Num(2), Num(3)>>),
       Obj(1, FALSE, {}), Obj(2, TRUE, {"Function"}), Undefined, Null, NaN,
       Infinity, Obj(3, FALSE, {"Date"}), Obj(4, FALSE, {"RegExp"}),
       Obj(5, FALSE, {"Set"}), Obj(6, FALSE, {"Map"}), Obj(7, FALSE, {"WeakSet"}),
       Obj(8, FALSE, {"WeakMap"}), BigInt(123), Sym(9), Obj(10, FALSE, {"Promise"}) >>

\* The values of knownTypes, and a function whose prototype chain no longer
\* holds Function.prototype (Object.setPrototypeOf(f, null))
KnownValues == {knownTypes[k] : k \in 1..Len(knownTypes)} \cup {Obj(11, TRUE, {})}

\* Values of the tests: booleans, numbers and strings, NaN, 1 / 0, null, {},
\* new Date(), new String('12')
SampleValues ==
    { Bool(TRUE), Bool(FALSE), Num(123), Str(123), NaN, Infinity, Null,
      Obj(1, FALSE, {}), Obj(3, FALSE, {"Date"}), Obj(12, FALSE, {}) }

SeqsUpTo(S, n) == UNION {[1..k -> S] : k \in 0..n}

\* The arrays given to the aggregators
Arrays == SeqsUpTo(SampleValues, MaxLen) \cup SeqsUpTo(KnownValues, MaxKnownLen) \cup {knownTypes}

\* Every shape of object the tests of getRealType can tell apart: callable or
\* not, an array or not, with any set of the tested constructors on its
\* prototype chain (an array is never callable)
ObjectShapes ==
    { [Obj(1, c, ch) EXCEPT !.isArray = ia] :
        <<c, ia, ch>> \in {t \in BOOLEAN \X BOOLEAN \X SUBSET Ctors : ~ (t[1] /\ t[2])} }

Primitives ==
    { Bool(TRUE), Bool(FALSE), Str(123), Undefined, Null, Num(0), Num(123), NaN,
      Infinity, NegInfinity, BigInt(123), Sym(9) }

\* The values given to getRealType
AllValues == Primitives \cup ObjectShapes \cup KnownValues

\* The operands given to areEqual: primitives, two distinct {} instances,
\* flat arrays, and arrays of arrays
EqElems == {Num(11), Num(12), Str(11), NaN}
EqPrims == EqElems \cup {Str(12), Null, Undefined, Obj(1, FALSE, {}), Obj(2, FALSE, {})}
FlatArrays == {Arr(s) : s \in SeqsUpTo(EqElems, MaxEqLen)}
ShortArrays == {Arr(s) : s \in SeqsUpTo(EqElems, 1)}
NestedArrays == {Arr(s) : s \in SeqsUpTo(ShortArrays \cup {Num(11)}, MaxEqLen) \ {<<>>}}
EqValues == EqPrims \cup FlatArrays \cup NestedArrays

(***************************************************************************)
(* The calls                                                               *)
(***************************************************************************)
NoValue == Undefined

Init ==
    /\ op = "none"
    /\ pc = "idle"
    /\ arg = NoValue
    /\ a = NoValue
    /\ b = NoValue
    /\ arr = <<>>
    /\ i = 0
    /\ map = <<>>
    /\ retType = ""
    /\ retEqual = FALSE
    /\ retSame = FALSE
    /\ retTypes = <<>>
    /\ retUnique = FALSE
    /\ retStat = <<>>

\* getRealType(value)
GetRealTypeCall ==
    /\ pc = "idle"
    /\ \E value \in AllValues :
          /\ arg' = value
          /\ retType' = getRealType(value)
    /\ op' = "getRealType"
    /\ pc' = "done"
    /\ UNCHANGED <<a, b, arr, i, map, retEqual, retSame, retTypes, retUnique, retStat>>

\* areEqual(a, b)
AreEqualCall ==
    /\ pc = "idle"
    /\ \E x \in EqValues, y \in EqValues :
          /\ a' = x
          /\ b' = y
          /\ retEqual' = areEqual(x, y)
    /\ op' = "areEqual"
    /\ pc' = "done"
    /\ UNCHANGED <<arg, arr, i, map, retType, retSame, retTypes, retUnique, retStat>>

\* allItemsHaveTheSameType(arr), the first call on an array
AllItemsHaveTheSameTypeCall ==
    /\ pc = "idle"
    /\ \E xs \in Arrays :
          /\ arr' = xs
          /\ retSame' = allItemsHaveTheSameType(xs)
    /\ op' = "allItemsHaveTheSameType"
    /\ pc' = "run"
    /\ UNCHANGED <<arg, a, b, i, map, retType, retEqual, retTypes, retUnique, retStat>>

\* getRealTypesOfItems(arr)
GetRealTypesOfItemsCall ==
    /\ pc = "run"
    /\ op = "allItemsHaveTheSameType"
    /\ retTypes' = getRealTypesOfItems(arr)
    /\ op' = "getRealTypesOfItems"
    /\ UNCHANGED <<pc, arg, a, b, arr, i, map, retType, retEqual, retSame, retUnique, retStat>>

\* everyItemHasAUniqueRealType(arr)
EveryItemHasAUniqueRealTypeCall ==
    /\ pc = "run"
    /\ op = "getRealTypesOfItems"
    /\ retUnique' = everyItemHasAUniqueRealType(arr)
    /\ op' = "everyItemHasAUniqueRealType"
    /\ UNCHANGED <<pc, arg, a, b, arr, i, map, retType, retEqual, retSame, retTypes, retStat>>

\* countRealTypes(arr): const map = {}
CountRealTypesCall ==
    /\ pc = "run"
    /\ op = "everyItemHasAUniqueRealType"
    /\ op' = "countRealTypes"
    /\ pc' = "loop"
    /\ i' = 0
    /\ map' = <<>>
    /\ UNCHANGED <<arg, a, b, arr, retType, retEqual, retSame, retTypes, retUnique, retStat>>

\* countRealTypes: one call of the forEach callback
CountRealTypesStep ==
    /\ pc = "loop"
    /\ i < Len(arr)
    /\ map' = forEachBody(map, arr[i + 1])
    /\ i' = i + 1
    /\ UNCHANGED <<op, pc, arg, a, b, arr, retType, retEqual, retSame, retTypes, retUnique, retStat>>

\* countRealTypes: return Object.entries(map).sort(...)
CountRealTypesReturn ==
    /\ pc = "loop"
    /\ i = Len(arr)
    /\ retStat' = sort(map)
    /\ pc' = "done"
    /\ UNCHANGED <<op, arg, a, b, arr, i, map, retType, retEqual, retSame, retTypes, retUnique>>

Next ==
    \/ GetRealTypeCall
    \/ AreEqualCall
    \/ AllItemsHaveTheSameTypeCall
    \/ GetRealTypesOfItemsCall
    \/ EveryItemHasAUniqueRealTypeCall
    \/ CountRealTypesCall
    \/ CountRealTypesStep
    \/ CountRealTypesReturn

Spec == Init /\ [][Next]_vars

(***************************************************************************)
(* The properties                                                          *)
(***************************************************************************)
TypeTags ==
    { "boolean", "string", "undefined", "null", "Infinity", "NaN", "number",
      "bigint", "array", "function", "date", "regexp", "set", "map", "weakset",
      "weakmap", "symbol", "promise", "object", "unknown" }

\* The twenty rules of the classifier, in priority order: the tag of each
RuleTag ==
    << "boolean", "string", "undefined", "null", "Infinity", "NaN", "number",
       "bigint", "array", "function", "date", "regexp", "set", "map", "weakset",
       "weakmap", "symbol", "promise", "object", "unknown" >>

\* The twenty rules: the predicate of each, read off the value itself.  A
\* value is of a collection, date, pattern, callable or promise kind when the
\* kind's constructor is on its prototype chain.
RulePred(k, v) ==
    CASE k = 1 -> v.type = "boolean"
      [] k = 2 -> v.type = "string"
      [] k = 3 -> v.type = "undefined"
      [] k = 4 -> v.type = "null"
      [] k = 5 -> v.type = "number" /\ v.num \in {"pinf", "ninf"}
      [] k = 6 -> v.type = "number" /\ v.num = "nan"
      [] k = 7 -> v.type = "number"
      [] k = 8 -> v.type = "bigint"
      [] k = 9 -> v.type = "object" /\ v.isArray
      [] k = 10 -> v.type = "object" /\ "Function" \in v.chain
      [] k = 11 -> v.type = "object" /\ "Date" \in v.chain
      [] k = 12 -> v.type = "object" /\ "RegExp" \in v.chain
      [] k = 13 -> v.type = "object" /\ "Set" \in v.chain
      [] k = 14 -> v.type = "object" /\ "Map" \in v.chain
      [] k = 15 -> v.type = "object" /\ "WeakSet" \in v.chain
      [] k = 16 -> v.type = "object" /\ "WeakMap" \in v.chain
      [] k = 17 -> v.type = "symbol"
      [] k = 18 -> v.type = "object" /\ "Promise" \in v.chain
      [] k = 19 -> v.type = "null" \/ (v.type = "object" /\ ~ v.callable)
      [] k = 20 -> TRUE

FirstRule(v) == CHOOSE k \in 1..20 : RulePred(k, v) /\ \A j \in 1..(k - 1) : ~ RulePred(j, v)

C2_NumericTags ==
    op = "getRealType" =>
        /\ arg.type = "number" =>
              /\ retType = "NaN" <=> ~ StrictEquals(arg, arg)
              /\ retType = "Infinity" <=> arg.num \in {"pinf", "ninf"}
              /\ retType \in {"NaN", "Infinity", "number"}
        /\ arg.type # "number" => retType \notin {"NaN", "Infinity", "number"}

\* C2 witness: -Infinity has been classified Infinity.
C2_Witness ==
    /\ op = "getRealType"
    /\ arg = NegInfinity
    /\ retType = "Infinity"

\* The elements at index k of two arrays are primitives of different types
DifferentTypesAt(x, y, k) ==
    /\ x.items[k].type # "object"
    /\ y.items[k].type # "object"
    /\ x.items[k].type # y.items[k].type

\* C3: for two arrays, areEqual is true exactly when the lengths are equal and
\* areEqual is true of the elements at every index; two empty arrays are
\* equal, arrays of different lengths never are, and neither are arrays that
\* hold, at some index, primitives of different types.
C3_ArraysElementwise ==
    (op = "areEqual" /\ ArrayIsArray(a) /\ ArrayIsArray(b)) =>
        /\ retEqual <=>
              /\ Len(a.items) = Len(b.items)
              /\ \A k \in 1..Len(a.items) : areEqual(a.items[k], b.items[k])
        /\ (Len(a.items) = 0 /\ Len(b.items) = 0) => retEqual
        /\ Len(a.items) # Len(b.items) => ~ retEqual
        /\ (/\ Len(a.items) = Len(b.items)
            /\ \E k \in 1..Len(a.items) : DifferentTypesAt(a, b, k)) => ~ retEqual

\* C3 witness: two arrays of an array and a number, equal element by element,
\* have been found equal.
C3_Witness ==
    /\ op = "areEqual"
    /\ a = Arr(<<Arr(<<Num(12)>>), Num(11)>>)
    /\ b = Arr(<<Arr(<<Num(12)>>), Num(11)>>)
    /\ retEqual

\* C4: when the operands are not both arrays, areEqual is a === b: operands of
\* different typeof are never equal, an array never equals a non-array, two
\* distinct objects are never equal, and a primitive other than NaN equals
\* itself.
C4_StrictOutsideArrays ==
    (op = "areEqual" /\ ~ (ArrayIsArray(a) /\ ArrayIsArray(b))) =>
        /\ retEqual <=> StrictEquals(a, b)
        /\ retEqual => a.type = b.type
        /\ ArrayIsArray(a) # ArrayIsArray(b) => ~ retEqual
        /\ (a.type = "object" /\ b.type = "object" /\ a.id # b.id) => ~ retEqual
        /\ (a = b /\ ~ NumberIsNaN(a)) => retEqual

\* C4 witness: two distinct {} instances have been found not equal.
C4_Witness ==
    /\ op = "areEqual"
    /\ a = Obj(1, FALSE, {})
    /\ b = Obj(2, FALSE, {})
    /\ ~ retEqual

\* C5: areEqual(a, b) is areEqual(b, a).
C5_Symmetric ==
    op = "areEqual" => (retEqual <=> areEqual(b, a))

\* C5 witness: an array has been compared with a longer array it is a prefix
\* of, and found not equal.
C5_Witness ==
    /\ op = "areEqual"
    /\ a = Arr(<<Num(11)>>)
    /\ b = Arr(<<Num(11), Num(12)>>)
    /\ ~ retEqual

RECURSIVE HoldsNaN(_)
\* v is NaN, or an array with NaN in it at some depth
HoldsNaN(v) ==
    \/ NumberIsNaN(v)
    \/ ArrayIsArray(v) /\ \E k \in 1..Len(v.items) : HoldsNaN(v.items[k])

\* areEqual has compared two one-element arrays that hold the same value
SingletonsOfOneValue ==
    /\ op = "areEqual"
    /\ ArrayIsArray(a)
    /\ ArrayIsArray(b)
    /\ Len(a.items) = 1
    /\ Len(b.items) = 1
    /\ a.items[1] = b.items[1]

\* C6 as stated: areEqual([x], [x]) is true for every value x.
C6_Original == SingletonsOfOneValue => retEqual

\* C6, amended: areEqual([x], [x]) is true for every value x that is not NaN
\* and holds no NaN at any depth.
C6_SingletonsWithoutNaN ==
    (SingletonsOfOneValue /\ ~ HoldsNaN(a.items[1])) => retEqual

\* C6 witness: [[11]] has been compared with [[11]] and found equal.
C6_Witness ==
    /\ SingletonsOfOneValue
    /\ a.items[1] = Arr(<<Num(11)>>)
    /\ retEqual

\* C7 as stated: allItemsHaveTheSameType is true exactly when all elements
\* have the same typeof, which they have in the empty array and in every
\* array of one element.
C7_Claim ==
    op = "allItemsHaveTheSameType" =>
        (retSame <=> \A j, k \in 1..Len(arr) : getType(arr[j]) = getType(arr[k]))

\* The tags of the entries of a statistic, in order
TagsOf(stat) == [k \in 1..Len(stat) |-> stat[k][1]]

\* Strictly increasing in the order of the UTF-16 code units
CodeUnitIncreasing(tags) ==
    \A k \in 1..(Len(tags) - 1) :
        SeqCompare(CodeUnits(tags[k]), CodeUnits(tags[k + 1])) = -1

\* A string's code units with the upper-case letters made lower-case
LowerCase(u) == [k \in 1..Len(u) |-> IF u[k] \in 65..90 THEN u[k] + 32 ELSE u[k]]

\* Strictly increasing in alphabetical order, the case of the letters ignored
AlphabeticalIncreasing(tags) ==
    \A k \in 1..(Len(tags) - 1) :
        SeqCompare(LowerCase(CodeUnits(tags[k])), LowerCase(CodeUnits(tags[k + 1]))) = -1

\* C8 as stated: the tags countRealTypes returns are strictly increasing in
\* the lexicographic (code unit) order of the strings.
C8_Original ==
    (op = "countRealTypes" /\ pc = "done") => CodeUnitIncreasing(TagsOf(retStat))

\* C8, amended: the tags countRealTypes returns are pairwise distinct, are the
\* tags of the input's elements, and are strictly increasing in the order of
\* localeCompare, which is alphabetical with the case of the letters ignored
\* ('Infinity' after 'function', 'NaN' after 'map'); the order depends neither
\* on the counts nor on the order of the input.
C8_AlphabeticalOrder ==
    (op = "countRealTypes" /\ pc = "done") =>
        LET tags == TagsOf(retStat)
        IN  /\ \A j, k \in 1..Len(tags) : j # k => tags[j] # tags[k]
            /\ {tags[k] : k \in 1..Len(tags)} = {getRealType(arr[k]) : k \in 1..Len(arr)}
            /\ AlphabeticalIncreasing(tags)

\* C8 witness: countRealTypes has returned 'Infinity' right behind 'function'.
C8_Witness ==
    /\ op = "countRealTypes"
    /\ pc = "done"
    /\ TagsOf(retStat) = <<"function", "Infinity">>

\* C9: everyItemHasAUniqueRealType is true of an array exactly when every
\* entry countRealTypes returns for it has count 1, which is when there are as
\* many entries as elements; it is true of the empty array.
C9_UniqueIffCountsOne ==
    /\ (op = "countRealTypes" /\ pc = "done") =>
          /\ retUnique <=> \A k \in 1..Len(retStat) : retStat[k][2] = 1
          /\ retUnique <=> Len(retStat) = Len(arr)
    /\ (op = "everyItemHasAUniqueRealType" /\ Len(arr) = 0) => retUnique

\* C9 witness: both functions have run on knownTypes; no two of its values
\* have one real type, and each of the 19 entries has count 1.
C9_Witness ==
    /\ op = "countRealTypes"
    /\ pc = "done"
    /\ arr = knownTypes
    /\ retUnique
    /\ Len(retStat) = 19
    /\ \A k \in 1..Len(retStat) : retStat[k][2] = 1

RECURSIVE SumCounts(_)
\* The sum of the counts of a sequence of [tag, count] entries
SumCounts(m) == IF Len(m) = 0 THEN 0 ELSE m[1][2] + SumCounts(Tail(m))

\* How many of the first k elements of xs have the real type tag
Occurrences(xs, k, tag) == Cardinality({j \in 1..k : getRealType(xs[j]) = tag})

\* C10: while countRealTypes runs, after forEach has visited i elements the
\* counts in map sum to i, map has one entry for every tag met so far, and the
\* count of each is the number of visited elements of that tag (at least 1);
\* what countRealTypes returns has the entries of the final map, one for each
\* tag in the input, and its counts sum to the length of the input.
C10_CountsMatchPrefix ==
    op = "countRealTypes" =>
        /\ SumCounts(map) = i
        /\ \A j, k \in 1..Len(map) : j # k => map[j][1] # map[k][1]
        /\ {map[k][1] : k \in 1..Len(map)} = {getRealType(arr[k]) : k \in 1..i}
        /\ \A k \in 1..Len(map) :
              /\ map[k][2] = Occurrences(arr, i, map[k][1])
              /\ map[k][2] >= 1
        /\ pc = "done" =>
              /\ i = Len(arr)
              /\ {retStat[k] : k \in 1..Len(retStat)} = {map[k] : k \in 1..Len(map)}
              /\ Len(retStat) = Cardinality({getRealType(arr[k]) : k \in 1..Len(arr)})
              /\ SumCounts(retStat) = Len(arr)

\* C10 witness: inside the loop, two of three elements visited, both of the
\* same tag.
C10_Witness ==
    /\ op = "countRealTypes"
    /\ pc = "loop"
    /\ Len(arr) = 3
    /\ i = 2
    /\ map = <<(<<"boolean", 2>>)>>

=============================================================================
